---- MODULE Spec2Model ----
(***************************************************************************)
(* A model of the unarray crate: arrays built slot by slot in a block of   *)
(* MaybeUninit slots (uninit_buf), then declared valid (mark_initialized). *)
(*                                                                         *)
(* One behaviour is one call of one operation on one input:                *)
(*   from_iter            ArrayFromIter::<T, N>::from_iter (from_iter.rs)  *)
(*   map_result           UnarrayArrayExt::map_result        (map.rs)      *)
(*   map_option           UnarrayArrayExt::map_option        (map.rs)      *)
(*   build_array, build_array_result, build_array_option                   *)
(*                        re-exported by lib.rs from the module build,     *)
(*                        whose file is not among the sources; these three *)
(*                        are modelled from the specification's section    *)
(*                        4.2 and 7.                                       *)
(* Each action is one iteration of the operation's loop, or the code after *)
(* the loop.  Arrays and sequences are functions on 0..n-1, as in the      *)
(* source.                                                                 *)
(***************************************************************************)
EXTENDS Integers, Sequences, FiniteSets

\* Largest array length N explored (N is a const generic: any usize).
MaxN == 3
\* Element values are 1..MaxVal.
MaxVal == 2

\* Longest finite source handed to the collector: one more than the largest N.
MaxLen == MaxN + 1

\* The element type T, and (the same small set) the mapped type S.
T == 1..MaxVal
\* What a slot that was never written may be read as: any value of T, or a
\* bit pattern (0) that is no value of T at all.
AnyBits == 0..MaxVal
\* The error type E of map_result and build_array_result.
Errs == {"e1", "e2"}
\* The unit error () that map_option and build_array_option use internally.
Unit == "()"

Some(v) == [tag |-> "Some", val |-> v]
None == [tag |-> "None"]
Ok(v) == [tag |-> "Ok", val |-> v]
Err(e) == [tag |-> "Err", err |-> e]
\* The plain array build_array returns.
Plain(a) == [tag |-> "Array", val |-> a]
\* No value returned yet.
Pending == [tag |-> "Pending"]

len(a) == Cardinality(DOMAIN a)

VARIABLES
    op,         \* the operation called
    N,          \* the const generic length of the array
    f,          \* the caller's closure: element -> outcome, or index -> outcome
    src,        \* the caller's source: [items, endless]; items is `self` for the maps
    iterPos,    \* items the source iterator has yielded
    slotPos,    \* slots the iterator over the buffer has yielded
    buffer,     \* the [MaybeUninit; N] block (`buffer` in from_iter, `result` in map_result)
    pc,         \* "loop", "match" (map_option / build_array_option after the inner call), "done"
    ret,        \* the value returned
    writes,     \* per slot: how many times it was written
    reads,      \* per slot: how many times it was read as a T
    torn,       \* per slot: how many times it was dropped as a T
    calls,      \* the invocations of f, in order: [idx, arg]
    moved,      \* per source element: how many times it was moved into f
    dropped,    \* per source element: how many times the operation dropped it
    requests,   \* calls of next() on the source
    exhausted,  \* the source has answered None
    afterNone,  \* calls of next() made after the source answered None
    finalized   \* calls of mark_initialized

vars == <<op, N, f, src, iterPos, slotPos, buffer, pc, ret, writes, reads, torn,
          calls, moved, dropped, requests, exhausted, afterNone, finalized>>

----------------------------------------------------------------------------
\* lib.rs

\* A slot nobody wrote: MaybeUninit::uninit().
Uninit == [init |-> FALSE, val |-> 0]

\* uninit_buf::<T, N>(): N slots, none written.
uninit_buf(n) == [i \in 0..(n - 1) |-> Uninit]

\* mark_initialized(src): the slots reinterpreted as values.  A written slot
\* is its value; reading a slot nobody wrote is undefined behaviour, here any
\* bit pattern at all.  The set of arrays the call may return.
mark_initialized(buf) ==
    LET unwritten == {i \in DOMAIN buf : ~buf[i].init}
    IN  {[i \in DOMAIN buf |-> IF buf[i].init THEN buf[i].val ELSE g[i]] :
            g \in [unwritten -> AnyBits]}

\* A [MaybeUninit<T>; N] going out of scope: the slots it tears down as
\* values of T.  MaybeUninit never drops its content.  (DropPrefixOfBuf: the
\* variant that tears down the written slots.)
DropPrefixOfBuf(buf) == {i \in DOMAIN buf : buf[i].init}
DropUninitBuf(buf) == {}

\* MaybeUninit::write: slot i now holds v.  (SlotWriteFirst: the variant that
\* never advances past the first slot.)
SlotWriteFirst(buf, i, v) == [buf EXCEPT ![0] = [init |-> TRUE, val |-> v]]
SlotWrite(buf, i, v) == [buf EXCEPT ![i] = [init |-> TRUE, val |-> v]]

\* A per-slot counter raised by one on the slots of `set`.
Bump(cnt, set) == [i \in DOMAIN cnt |-> IF i \in set THEN cnt[i] + 1 ELSE cnt[i]]

Zeros(n) == [i \in 0..(n - 1) |-> 0]

----------------------------------------------------------------------------
\* from_iter.rs

\* iter.next() on the caller's source, which has yielded `pos` items: a
\* finite source answers None at its end, an endless one goes on for ever.
IterNext(s, pos) ==
    IF pos < len(s.items) THEN Some(s.items[pos])
    ELSE IF s.endless THEN Some(1)
    ELSE None

\* buf_iter.next(): the next slot of buffer.iter_mut(), by its index.
BufIterNext(n, pos) == IF pos < n THEN Some(pos) ELSE None

\* The match on (item, slot): whether the arm writes, and what follows.
\* Variants: MatchArmTruncate finalizes when items remain but no slot does;
\* MatchArmPad finalizes when slots remain but the source has ended;
\* MatchArmDrain keeps asking the source when no slot remains.
MatchArmTruncate(item, slot) ==
    IF item.tag = "Some" /\ slot.tag = "Some" THEN [write |-> TRUE, next |-> "loop"]
    ELSE IF item.tag = "Some" THEN [write |-> FALSE, next |-> "finalize"]
    ELSE IF slot.tag = "Some" THEN [write |-> FALSE, next |-> "None"]
    ELSE [write |-> FALSE, next |-> "finalize"]
MatchArmPad(item, slot) ==
    IF item.tag = "Some" /\ slot.tag = "Some" THEN [write |-> TRUE, next |-> "loop"]
    ELSE IF item.tag = "Some" THEN [write |-> FALSE, next |-> "None"]
    ELSE IF slot.tag = "Some" THEN [write |-> FALSE, next |-> "finalize"]
    ELSE [write |-> FALSE, next |-> "finalize"]
MatchArmDrain(item, slot) ==
    IF item.tag = "Some" /\ slot.tag = "Some" THEN [write |-> TRUE, next |-> "loop"]
    ELSE IF item.tag = "Some" THEN [write |-> FALSE, next |-> "loop"]
    ELSE IF slot.tag = "Some" THEN [write |-> FALSE, next |-> "None"]
    ELSE [write |-> FALSE, next |-> "finalize"]
MatchArm(item, slot) ==
    IF item.tag = "Some" /\ slot.tag = "Some" THEN [write |-> TRUE, next |-> "loop"]
    ELSE IF item.tag = "Some" THEN [write |-> FALSE, next |-> "None"]
    ELSE IF slot.tag = "Some" THEN [write |-> FALSE, next |-> "None"]
    ELSE [write |-> FALSE, next |-> "finalize"]

\* One iteration of the loop of from_iter.
from_iter ==
    /\ op = "from_iter"
    /\ pc = "loop"
    /\ LET item == IterNext(src, iterPos)
           slot == BufIterNext(N, slotPos)
           arm == MatchArm(item, slot)
           buf == IF arm.write THEN SlotWrite(buffer, slot.val, item.val) ELSE buffer
       IN  /\ requests' = requests + 1
           /\ afterNone' = IF exhausted THEN afterNone + 1 ELSE afterNone
           /\ exhausted' = (exhausted \/ item.tag = "None")
           /\ iterPos' = IF item.tag = "Some" THEN iterPos + 1 ELSE iterPos
           /\ slotPos' = IF slot.tag = "Some" THEN slotPos + 1 ELSE slotPos
           /\ buffer' = buf
           /\ writes' = IF arm.write THEN Bump(writes, {slot.val}) ELSE writes
           /\ \/ /\ arm.next = "loop"
                 /\ pc' = "loop"
                 /\ UNCHANGED <<ret, reads, torn, finalized>>
              \/ /\ arm.next = "None"
                 /\ pc' = "done"
                 /\ ret' = None
                 /\ torn' = Bump(torn, DropUninitBuf(buf))
                 /\ UNCHANGED <<reads, finalized>>
              \/ /\ arm.next = "finalize"
                 /\ pc' = "done"
                 /\ \E arr \in mark_initialized(buf) : ret' = Some(arr)
                 /\ reads' = Bump(reads, DOMAIN buf)
                 /\ finalized' = finalized + 1
                 /\ torn' = Bump(torn, DropUninitBuf(buf))
    /\ UNCHANGED <<op, N, f, src, calls, moved, dropped>>

----------------------------------------------------------------------------
\* map.rs

\* next() on self.into_iter(), the by-value iterator over the source array,
\* which has yielded `pos` elements: the element and its index in `self`.
\* (IntoIterNextRev: the variant that walks the array from its end.)
IntoIterNextRev(arr, pos) ==
    IF pos < len(arr)
    THEN Some([idx |-> len(arr) - 1 - pos, val |-> arr[len(arr) - 1 - pos]])
    ELSE None
IntoIterNext(arr, pos) ==
    IF pos < len(arr) THEN Some([idx |-> pos, val |-> arr[pos]]) ELSE None

\* The by-value iterator going out of scope after yielding `pos` of its n
\* elements: the elements it still owns, which it drops.  (IntoIterDropLeak:
\* the variant that forgets them.)
IntoIterDropLeak(pos, n) == {}
IntoIterDrop(pos, n) == pos..(n - 1)

\* next() on a.zip(b): an item of a, then a slot of b, or None.
ZipNext(item, slot) ==
    IF item.tag = "Some" /\ slot.tag = "Some"
    THEN Some([item |-> item.val, slot |-> slot.val])
    ELSE None

\* Option::ok_or(()) as map_option applies it to the closure's answer.
\* (ok_or_swap: the variant with the two arms exchanged.)
ok_or_swap(o) == IF o.tag = "Some" THEN Err(Unit) ELSE Ok(0)
ok_or(o) == IF o.tag = "Some" THEN Ok(o.val) ELSE Err(Unit)

\* The closure map_result runs: f itself, or map_option's actual_f.
actual_f(o, g, t) == IF o = "map_option" THEN ok_or(g[t]) ELSE g[t]

\* map_option's match on the inner Result.
OptionOfResult(r) == IF r.tag = "Ok" THEN Some(r.val) ELSE None

\* The array [T; N]::map returns (the crate documentation's total map).
map(arr, g) == [i \in DOMAIN arr |-> g[arr[i]]]

\* One iteration of the for loop of map_result (also under map_option).
map_result_loop ==
    /\ op \in {"map_result", "map_option"}
    /\ pc = "loop"
    /\ LET z == ZipNext(IntoIterNext(src.items, iterPos), BufIterNext(N, slotPos))
       IN  /\ z.tag = "Some"
           /\ LET item == z.val.item
                  slot == z.val.slot
                  out == actual_f(op, f, item.val)
              IN  /\ iterPos' = iterPos + 1
                  /\ slotPos' = slotPos + 1
                  /\ moved' = Bump(moved, {item.idx})
                  /\ calls' = Append(calls, [idx |-> item.idx, arg |-> item.val])
                  /\ \/ /\ out.tag = "Ok"
                        /\ buffer' = SlotWrite(buffer, slot, out.val)
                        /\ writes' = Bump(writes, {slot})
                        /\ UNCHANGED <<pc, ret, dropped, torn>>
                     \/ /\ out.tag = "Err"
                        /\ ret' = Err(out.err)
                        /\ dropped' = Bump(dropped, IntoIterDrop(iterPos + 1, N))
                        /\ torn' = Bump(torn, DropUninitBuf(buffer))
                        /\ pc' = IF op = "map_option" THEN "match" ELSE "done"
                        /\ UNCHANGED <<buffer, writes>>
    /\ UNCHANGED <<op, N, f, src, reads, requests, exhausted, afterNone, finalized>>

\* The code of map_result after its loop: Ok(mark_initialized(result)).
map_result_finish ==
    /\ op \in {"map_result", "map_option"}
    /\ pc = "loop"
    /\ ZipNext(IntoIterNext(src.items, iterPos), BufIterNext(N, slotPos)).tag = "None"
    /\ \E arr \in mark_initialized(buffer) : ret' = Ok(arr)
    /\ reads' = Bump(reads, DOMAIN buffer)
    /\ finalized' = finalized + 1
    /\ dropped' = Bump(dropped, IntoIterDrop(iterPos, N))
    /\ torn' = Bump(torn, DropUninitBuf(buffer))
    /\ pc' = IF op = "map_option" THEN "match" ELSE "done"
    /\ UNCHANGED <<op, N, f, src, iterPos, slotPos, buffer, writes, calls, moved,
                   requests, exhausted, afterNone>>

\* map_option after the inner map_result returned: the match on its result.
map_option_match ==
    /\ op = "map_option"
    /\ pc = "match"
    /\ ret' = OptionOfResult(ret)
    /\ pc' = "done"
    /\ UNCHANGED <<op, N, f, src, iterPos, slotPos, buffer, writes, reads, torn,
                   calls, moved, dropped, requests, exhausted, afterNone, finalized>>

----------------------------------------------------------------------------
\* build (the specification's section 4.2; the module's file is not among
\* the sources)

\* The array the total builder returns for g.
build(g, n) == [i \in 0..(n - 1) |-> g[i]]

\* The index the builder hands to f at its step `pos`.  (BuildIndexRev: the
\* variant that counts down.)
BuildIndexRev(pos, n) == n - 1 - pos
BuildIndex(pos, n) == pos

\* What the shared traversal sees of f at index i: build_array's f cannot
\* fail, build_array_option's absence becomes the throwaway error token.
build_f(o, g, i) ==
    IF o = "build_array" THEN Ok(g[i])
    ELSE IF o = "build_array_option" THEN ok_or(g[i])
    ELSE g[i]

\* The builders' match on f's answer: whether the slot is written, and
\* whether the traversal goes on or returns the error.  (BuildArmContinue:
\* the variant that skips a failing index and goes on.)
BuildArmContinue(out) ==
    IF out.tag = "Ok" THEN [write |-> TRUE, next |-> "loop"]
    ELSE [write |-> FALSE, next |-> "loop"]
BuildArm(out) ==
    IF out.tag = "Ok" THEN [write |-> TRUE, next |-> "loop"]
    ELSE [write |-> FALSE, next |-> "Err"]

\* One step of the builders' traversal: f on the next index.
build_loop ==
    /\ op \in {"build_array", "build_array_result", "build_array_option"}
    /\ pc = "loop"
    /\ slotPos < N
    /\ LET i == BuildIndex(slotPos, N)
           out == build_f(op, f, i)
           arm == BuildArm(out)
       IN  /\ slotPos' = slotPos + 1
           /\ calls' = Append(calls, [idx |-> i, arg |-> i])
           /\ buffer' = IF arm.write THEN SlotWrite(buffer, i, out.val) ELSE buffer
           /\ writes' = IF arm.write THEN Bump(writes, {i}) ELSE writes
           /\ \/ /\ arm.next = "loop"
                 /\ UNCHANGED <<pc, ret, torn>>
              \/ /\ arm.next = "Err"
                 /\ ret' = Err(out.err)
                 /\ torn' = Bump(torn, DropUninitBuf(buffer))
                 /\ pc' = IF op = "build_array_option" THEN "match" ELSE "done"
    /\ UNCHANGED <<op, N, f, src, iterPos, reads, moved, dropped, requests,
                   exhausted, afterNone, finalized>>

\* The builders after the last index: finalize.
build_finish ==
    /\ op \in {"build_array", "build_array_result", "build_array_option"}
    /\ pc = "loop"
    /\ slotPos = N
    /\ \E arr \in mark_initialized(buffer) :
          ret' = IF op = "build_array" THEN Plain(arr) ELSE Ok(arr)
    /\ reads' = Bump(reads, DOMAIN buffer)
    /\ finalized' = finalized + 1
    /\ torn' = Bump(torn, DropUninitBuf(buffer))
    /\ pc' = IF op = "build_array_option" THEN "match" ELSE "done"
    /\ UNCHANGED <<op, N, f, src, iterPos, slotPos, buffer, writes, calls, moved,
                   dropped, requests, exhausted, afterNone>>

\* build_array_option after the shared traversal: the error token becomes absence.
build_option_match ==
    /\ op = "build_array_option"
    /\ pc = "match"
    /\ ret' = OptionOfResult(ret)
    /\ pc' = "done"
    /\ UNCHANGED <<op, N, f, src, iterPos, slotPos, buffer, writes, reads, torn,
                   calls, moved, dropped, requests, exhausted, afterNone, finalized>>

----------------------------------------------------------------------------
\* The calls explored.

\* The state every operation starts its loop in, for length n.
Entry(n) ==
    /\ N = n
    /\ iterPos = 0
    /\ slotPos = 0
    /\ buffer = uninit_buf(n)
    /\ pc = "loop"
    /\ ret = Pending
    /\ writes = Zeros(n)
    /\ reads = Zeros(n)
    /\ torn = Zeros(n)
    /\ calls = <<>>
    /\ requests = 0
    /\ exhausted = FALSE
    /\ afterNone = 0
    /\ finalized = 0

\* The sequences of at most MaxLen values.
Items == UNION {[0..(l - 1) -> T] : l \in 0..MaxLen}

\* What a closure may answer.
Results == {Ok(v) : v \in T} \cup {Err(e) : e \in Errs}
Options == {Some(v) : v \in T} \cup {None}

\* collect::<ArrayFromIter<T, n>>() on a finite or an endless source.
InitFromIter ==
    /\ op = "from_iter"
    /\ \E n \in 0..MaxN : Entry(n)
    /\ src \in [items : Items, endless : BOOLEAN]
    /\ f = <<>>
    /\ moved = <<>>
    /\ dropped = <<>>

\* self.map_result(f) and self.map_option(f) on an array of N elements.
InitMap ==
    /\ op \in {"map_result", "map_option"}
    /\ \E n \in 0..MaxN :
          /\ Entry(n)
          /\ src \in [items : [0..(n - 1) -> T], endless : {FALSE}]
          /\ moved = Zeros(n)
          /\ dropped = Zeros(n)
    /\ f \in [T -> IF op = "map_result" THEN Results ELSE Options]

\* build_array(f), build_array_result(f), build_array_option(f).
InitBuild ==
    /\ op \in {"build_array", "build_array_result", "build_array_option"}
    /\ \E n \in 0..MaxN :
          /\ Entry(n)
          /\ f \in [0..(n - 1) -> IF op = "build_array" THEN T
                                  ELSE IF op = "build_array_result" THEN Results
                                  ELSE Options]
    /\ src = [items |-> <<>>, endless |-> FALSE]
    /\ moved = <<>>
    /\ dropped = <<>>

Init == InitFromIter \/ InitMap \/ InitBuild

Next ==
    \/ from_iter
    \/ map_result_loop
    \/ map_result_finish
    \/ map_option_match
    \/ build_loop
    \/ build_finish
    \/ build_option_match

Spec == Init /\ [][Next]_vars

----------------------------------------------------------------------------
\* Vocabulary of the properties.

Maps == {"map_result", "map_option"}
Builders == {"build_array", "build_array_result", "build_array_option"}
Fallible == {"map_result", "map_option", "build_array_result", "build_array_option"}
Optional == {"map_option", "build_array_option"}

\* The closure's answer is a failure.
Failed(out) == out.tag \in {"Err", "None"}

\* The closure's answer at position i of the traversal.
Answer(i) == IF op \in Maps THEN f[src.items[i]] ELSE f[i]

\* The positions at which the closure fails, and the lowest of them.
FailAt == IF op \in Fallible THEN {i \in 0..(N - 1) : Failed(Answer(i))} ELSE {}
Lowest(S) == CHOOSE j \in S : \A k \in S : j <= k

\* The failure the operation is to return for the closure's failing answer.
FailureOf(out) == IF op \in Optional THEN None ELSE Err(out.err)

\* The success the operation is to return for the array a.
SuccessOf(a) == IF op \in Optional THEN Some(a) ELSE Ok(a)

\* The closure's unwrapped answers, as a total function.
Unwrapped == [x \in DOMAIN f |-> f[x].val]

\* The invocations of f on positions 0..j, in that order.
CallsUpTo(j) ==
    [k \in 1..(j + 1) |->
        [idx |-> k - 1, arg |-> IF op \in Maps THEN src.items[k - 1] ELSE k - 1]]

\* The source of the collector yields exactly N items.
ExactLength == ~src.endless /\ len(src.items) = N

\* C1. Collector round-trip: a source that yields exactly N items collects
\* into Some(array) whose element i is the i-th item yielded, for every i.
C1_RoundTrip ==
    (op = "from_iter" /\ pc = "done" /\ ExactLength)
        => /\ ret.tag = "Some"
           /\ DOMAIN ret.val = 0..(N - 1)
           /\ \A i \in 0..(N - 1) : ret.val[i] = src.items[i]

C1_Witness ==
    /\ op = "from_iter" /\ pc = "done" /\ ExactLength
    /\ N >= 2
    /\ src.items[0] # src.items[1]
    /\ ret = Some(src.items)

\* C2. Collector length sensitivity: a source that yields fewer or more than
\* N items (an endless one included) collects into None, never into a
\* truncated or partial array, and mark_initialized is not called.
C2_LengthSensitivity ==
    (op = "from_iter" /\ pc = "done" /\ ~ExactLength)
        => /\ ret = None
           /\ finalized = 0

C2_Witness ==
    /\ op = "from_iter" /\ pc = "done"
    /\ ~src.endless /\ len(src.items) = N + 1
    /\ N >= 1
    /\ ret = None
    /\ finalized = 0

\* C3. Transformer short-circuit: f is invoked on the elements in increasing
\* index order, once each, and never beyond the lowest index j at which it
\* fails; once the call has returned, f has run on exactly 0..j and the
\* result is Err of f's error at j (None for map_option).
C3_MapShortCircuit ==
    (op \in Maps)
        => /\ \A k \in DOMAIN calls :
                /\ calls[k] = [idx |-> k - 1, arg |-> src.items[k - 1]]
                /\ FailAt # {} => k - 1 <= Lowest(FailAt)
           /\ (pc = "done" /\ FailAt # {})
                => /\ calls = CallsUpTo(Lowest(FailAt))
                   /\ ret = FailureOf(Answer(Lowest(FailAt)))

C3_Witness ==
    /\ op = "map_result" /\ pc = "done"
    /\ N = 3
    /\ FailAt = {1, 2}
    /\ ret = Answer(1)
    /\ calls = CallsUpTo(1)

\* C4. Totality preserved under success: when f succeeds everywhere,
\* map_result and map_option return Ok / Some of the array map would give
\* for the unwrapped f, and build_array_result and build_array_option return
\* Ok / Some of the array build would give.
C4_Totality ==
    (op \in Fallible /\ pc = "done" /\ FailAt = {})
        => ret = SuccessOf(IF op \in Maps THEN map(src.items, Unwrapped)
                           ELSE build(Unwrapped, N))

C4_Witness ==
    /\ op = "map_option" /\ pc = "done"
    /\ N >= 2
    /\ FailAt = {}
    /\ src.items[0] # src.items[1]
    /\ f[src.items[0]] # f[src.items[1]]
    /\ ret = Some(map(src.items, Unwrapped))

\* C5. Builder short-circuit: build_array_result and build_array_option call
\* f on the indices in increasing order, once each, and never on an index
\* above the lowest failing index j; they return f's error at j (None for
\* build_array_option) after exactly the calls 0..j.
C5_BuildShortCircuit ==
    (op \in Builders /\ op \in Fallible)
        => /\ \A k \in DOMAIN calls :
                /\ calls[k].idx = k - 1
                /\ FailAt # {} => k - 1 <= Lowest(FailAt)
           /\ (pc = "done" /\ FailAt # {})
                => /\ calls = CallsUpTo(Lowest(FailAt))
                   /\ ret = FailureOf(Answer(Lowest(FailAt)))

C5_Witness ==
    /\ op = "build_array_result" /\ pc = "done"
    /\ N = 3
    /\ FailAt = {1}
    /\ ret = Answer(1)
    /\ calls = CallsUpTo(1)

\* C6. Index-order determinism: build_array calls f on 0, 1, ..., N-1 in that
\* order, once each, and the array it returns holds f(i) at position i.
C6_IndexOrder ==
    (op = "build_array")
        => /\ \A k \in DOMAIN calls : calls[k].idx = k - 1
           /\ pc = "done"
                => /\ calls = CallsUpTo(N - 1)
                   /\ ret.tag = "Array"
                   /\ \A i \in 0..(N - 1) : ret.val[i] = f[i]

C6_Witness ==
    /\ op = "build_array" /\ pc = "done"
    /\ N >= 2
    /\ f[0] # f[1]
    /\ Len(calls) = N
    /\ ret = Plain(build(f, N))

\* The operation has returned a failure.
Abandoned == pc \in {"match", "done"} /\ ret.tag \in {"None", "Err"}

\* C7. Disposal on abandonment: when the collector or a builder returns a
\* failure, no slot of the storage, written or not, has been dropped as a
\* value, and none has been read.
C7_Disposal ==
    (op \in Builders \cup {"from_iter"} /\ Abandoned)
        => \A i \in 0..(N - 1) : torn[i] = 0 /\ reads[i] = 0

C7_Witness ==
    /\ op = "from_iter" /\ Abandoned
    /\ N >= 2
    /\ writes[0] = 1 /\ writes[1] = 0
    /\ \A i \in 0..(N - 1) : torn[i] = 0 /\ reads[i] = 0

\* C8. Transformer source ownership: no source element is both moved into f
\* and dropped, or disposed of twice; an element the traversal has not
\* reached is still owned by it; once the call has returned every element
\* has been disposed of exactly once, moved into f if it lies at or below the
\* failing index (all of them on success), dropped otherwise.
C8_SourceOwnership ==
    (op \in Maps)
        => \A i \in 0..(N - 1) :
              /\ moved[i] + dropped[i] <= 1
              /\ (pc = "loop" /\ i >= iterPos) => moved[i] + dropped[i] = 0
              /\ pc \in {"match", "done"}
                    => /\ moved[i] + dropped[i] = 1
                       /\ moved[i] = 1 <=> (FailAt = {} \/ i <= Lowest(FailAt))

C8_Witness ==
    /\ op = "map_result" /\ pc = "done"
    /\ N = 3
    /\ FailAt # {} /\ Lowest(FailAt) = 0
    /\ moved[0] = 1 /\ dropped[0] = 0
    /\ dropped[1] = 1 /\ dropped[2] = 1
    /\ moved[1] = 0 /\ moved[2] = 0

\* C9. Finalizer precondition: in every state of the collector and of
\* map_result, the slots written are a prefix [0, k) of the storage, each
\* written once, and the rest were never written; mark_initialized is called
\* at most once and only with k = N, so that no slot is read unwritten.
C9_Prefix ==
    (op \in Maps \cup {"from_iter"})
        => /\ \E k \in 0..N :
                /\ \A i \in 0..(k - 1) : writes[i] = 1 /\ buffer[i].init
                /\ \A i \in k..(N - 1) : writes[i] = 0 /\ ~buffer[i].init
           /\ finalized <= 1
           /\ finalized = 1 => \A i \in 0..(N - 1) : writes[i] = 1
           /\ \A i \in 0..(N - 1) : reads[i] > 0 => writes[i] = 1

C9_Witness ==
    /\ op = "from_iter" /\ pc = "done"
    /\ N = 0
    /\ finalized = 1
    /\ ret = Some(<<>>)

Min(a, b) == IF a < b THEN a ELSE b

\* The items the collector's source can yield up to the array's length.
Yielded == IF src.endless THEN N ELSE Min(len(src.items), N)

\* C10. Collector bounded consumption: the collector asks the source for at
\* most N+1 items, never again after the source answered None, and has
\* returned exactly when it has asked min(len, N)+1 times; until then it can
\* take its next step.
C10_Bounded ==
    (op = "from_iter")
        => /\ requests <= N + 1
           /\ afterNone = 0
           /\ pc = "done" <=> requests = Yielded + 1
           /\ pc = "loop" => ENABLED from_iter
           /\ iterPos <= N + 1

C10_Witness ==
    /\ op = "from_iter" /\ pc = "done"
    /\ src.endless
    /\ N >= 1
    /\ requests = N + 1
    /\ ret = None

====
